---- MODULE Spec2Model ----
(***************************************************************************)
(* Model of the toolbar plugin (src/unnamed/part_000): the Toolbar         *)
(* component that wraps editor.onSelectionChange, the toolbar items        *)
(* (ToolbarButton, ToolbarDropdown) that subscribe to the Toolbar's        *)
(* listener list, and withToolbar / ToolbarEditor.                         *)
(*                                                                         *)
(* One action is one event of the UI thread together with the render and   *)
(* commit it causes, so every state of the model is a quiescent state.     *)
(* State updates made inside one handler are batched and applied by one    *)
(* commit, after the handler returned.                                     *)
(***************************************************************************)
EXTENDS Integers, Sequences, FiniteSets, TLC

VARIABLES
    Toolbars,            \* the Toolbar components of the page (fixed by Init)
    sel,                 \* the state of the rendered editor that callbacks read
    onToolbar,           \* editor -> the editor's onToolbar hook
    TOOLBAR_OPTIONS,     \* the WeakMap editor -> options
    onSelectionChange,   \* editor.onSelectionChange of the rendered editor
    mounted,             \* toolbar -> is the component mounted
    itemsProp,           \* toolbar -> the items prop of the last render
    items,               \* toolbar -> the items state (useState)
    eventListeners,      \* toolbar -> the listener array (useRef)
    captured,            \* toolbar -> onSelectionChange captured by its effect
    comps,               \* toolbar -> the mounted item components, by key
    ret,                 \* the editor returned by the last withToolbar call
    lastOp,              \* history: the last event and its arguments
    fired,               \* history: the last event called editor.onSelectionChange
    log,                 \* history: the calls made during the last event
    rerendered,          \* history: toolbar -> its effect re-ran since it mounted
    unsubscribers        \* toolbar -> callbacks a foreign consumer holds an unsubscribe function for

vars == <<Toolbars, sel, onToolbar, TOOLBAR_OPTIONS, onSelectionChange, mounted,
          itemsProp, items, eventListeners, captured, comps, ret,
          lastOp, fired, log, rerendered, unsubscribers>>

\* the variables of the program, without the history variables
progVars == <<Toolbars, sel, onToolbar, TOOLBAR_OPTIONS, onSelectionChange, mounted,
              itemsProp, items, eventListeners, captured, comps, unsubscribers>>

----------------------------------------------------------------------------
\* Bounds

\* editor states are 0..MaxSel
MaxSel == 1
\* longest chain of nested onSelectionChange wrappers that is explored
MaxChain == 3
\* longest listener array built through the context by foreign consumers
MaxListeners == 4

Sel == 0..MaxSel
AllToolbars == {1, 2}
Editors == {"e1", "e2"}
\* the editor useEditableStatic() supplies to the Toolbars
Rendered == "e1"
Undefined == "undefined"

----------------------------------------------------------------------------
\* Values

\* a callback, applied to the editor in state s
CallBool(cb, s) == IF cb = "isZero" THEN s = 0 ELSE s # 0
CallString(cb, s) == IF s = 0 THEN "paragraph" ELSE "heading"

MkItem(ty, a, d, t) == [type |-> ty, onActive |-> a, onDisabled |-> d, onToggle |-> t]
Separator == MkItem("separator", Undefined, Undefined, Undefined)
BtnBold == MkItem("button", "nonZero", "isZero", "cmd")
BtnPlain == MkItem("button", Undefined, Undefined, Undefined)
BtnUndo == MkItem("button", "isZero", Undefined, "cmd")
DdBlock == MkItem("dropdown", "blockType", "nonZero", "cmd")
DdPlain == MkItem("dropdown", Undefined, Undefined, Undefined)

\* the items prop: absent, or a list of items
NoItems == [def |-> FALSE, list |-> <<>>]
SomeItems(l) == [def |-> TRUE, list |-> l]
PropValues ==
    { NoItems, SomeItems(<<>>), SomeItems(<<BtnBold>>), SomeItems(<<BtnPlain, DdBlock>>),
      SomeItems(<<DdPlain, Separator, BtnUndo>>), SomeItems(<<BtnUndo, DdPlain>>) }

\* itemsProp || []
OrEmpty(p) == IF p.def THEN p.list ELSE <<>>

\* options of withToolbar: a Toolbar props object
EmptyOptions == [items |-> NoItems]
OptionValues == { EmptyOptions, [items |-> SomeItems(<<Separator>>)] }

\* an event: its name, the toolbar and item key (or 0) and the editor and
\* options it was called with
Op(name, t, k, e, o) == [op |-> name, tb |-> t, key |-> k, editor |-> e, options |-> o]

\* the onToolbar hook of an editor: unset, the one withToolbar installs, or
\* one a later plugin put in its place
OnToolbarApply(hook, l) == IF hook = "identity" THEN l ELSE Append(l, Separator)

----------------------------------------------------------------------------
\* The listener array

\* Array.prototype.indexOf, 0-based, -1 when absent
IndexOf(list, cb) ==
    IF \E i \in 1..Len(list) : list[i] = cb
    THEN (CHOOSE i \in 1..Len(list) : list[i] = cb /\ \A j \in 1..(i-1) : list[j] # cb) - 1
    ELSE -1

\* Array.prototype.splice(start, 1)
Splice1(list, start) ==
    LET n == Len(list)
        s == IF start < 0
             THEN (IF n + start < 0 THEN 0 ELSE n + start)
             ELSE (IF start > n THEN n ELSE start)
    IN  IF s >= n THEN list ELSE SubSeq(list, 1, s) \o SubSeq(list, s + 2, n)

\* addEventListener: eventListeners.push(callback)
AddEventListener(list, cb) == Append(list, cb)
\* variant: the returned function removes nothing
UnsubscribeNoop(list, cb) == list
\* the function addEventListener returns
Unsubscribe(list, cb) == Splice1(list, IndexOf(list, cb))

----------------------------------------------------------------------------
\* Toolbar items (ToolbarButtonDefault, ToolbarDropdownDefault)

\* a freshly mounted item: useState(false), useState(false), useState<string>()
Fresh(item) ==
    [type |-> item.type, onActive |-> item.onActive, onDisabled |-> item.onDisabled,
     onToggle |-> item.onToggle, active |-> FALSE, disabled |-> FALSE,
     value |-> Undefined, notified |-> FALSE]

\* the onChange closure the effect of the item at key k registers
ListenerOf(k, c) ==
    [key |-> k, type |-> c.type, onActive |-> c.onActive, onDisabled |-> c.onDisabled]

HasListener(c) == c.type \in {"button", "dropdown"}

\* variant: an absent onDisabled leaves the disabled flag as it was
ButtonOnChangeSkip(l, c, s) ==
    [c EXCEPT !.active = IF l.onActive # Undefined THEN CallBool(l.onActive, s) ELSE FALSE,
              !.disabled = IF l.onDisabled # Undefined THEN CallBool(l.onDisabled, s) ELSE @,
              !.notified = TRUE]
\* onChange of a button
ButtonOnChange(l, c, s) ==
    [c EXCEPT !.active = IF l.onActive # Undefined THEN CallBool(l.onActive, s) ELSE FALSE,
              !.disabled = IF l.onDisabled # Undefined THEN CallBool(l.onDisabled, s) ELSE FALSE,
              !.notified = TRUE]

\* onChange of a dropdown
DropdownOnChange(l, c, s) ==
    [c EXCEPT !.value = IF l.onActive # Undefined THEN CallString(l.onActive, s) ELSE Undefined,
              !.disabled = IF l.onDisabled # Undefined THEN CallBool(l.onDisabled, s) ELSE FALSE,
              !.notified = TRUE]

\* callback(editor) for one listener: the state setters of the item it belongs
\* to; a listener that is not an item's closure sets nothing
CallListener(l, cs, s) ==
    IF l.key \in 1..Len(cs) /\ cs[l.key].type = l.type
    THEN [cs EXCEPT ![l.key] = IF l.type = "button" THEN ButtonOnChange(l, @, s)
                               ELSE DropdownOnChange(l, @, s)]
    ELSE cs

\* dispatch: eventListeners.forEach(callback => callback(editor))
RECURSIVE Dispatch(_, _, _)
Dispatch(ls, cs, s) ==
    IF ls = <<>> THEN cs ELSE Dispatch(Tail(ls), CallListener(Head(ls), cs, s), s)

\* the comparison of memo(ToolbarButtonDefault) and memo(ToolbarDropdownDefault),
\* on the props that are modelled
MemoEqual(c, item) ==
    /\ c.onActive = item.onActive
    /\ c.onDisabled = item.onDisabled
    /\ c.onToggle = item.onToggle

\* the dependency list [onActive, onDisabled] of the item's effect changed
DepsChanged(c, item) == c.onActive # item.onActive \/ c.onDisabled # item.onDisabled

\* the element at key i keeps its component when the type is the same
Kept(cs, new, i) == i <= Len(cs) /\ i <= Len(new) /\ cs[i].type = new[i].type

\* the render of the items: components by key
RenderItems(cs, new) ==
    [i \in 1..Len(new) |->
        IF Kept(cs, new, i)
        THEN IF MemoEqual(cs[i], new[i]) THEN cs[i]
             ELSE [cs[i] EXCEPT !.onActive = new[i].onActive,
                                !.onDisabled = new[i].onDisabled,
                                !.onToggle = new[i].onToggle]
        ELSE Fresh(new[i])]

\* the effect cleanups of the commit: removed items and items whose
\* dependencies changed call their unsubscribe function
RECURSIVE RunCleanups(_, _, _, _)
RunCleanups(ls, cs, new, i) ==
    IF i > Len(cs) THEN ls
    ELSE IF HasListener(cs[i]) /\ (~Kept(cs, new, i) \/ DepsChanged(cs[i], new[i]))
         THEN RunCleanups(Unsubscribe(ls, ListenerOf(i, cs[i])), cs, new, i + 1)
         ELSE RunCleanups(ls, cs, new, i + 1)

\* the effects of the commit: new items and items whose dependencies changed
\* call addEventListener
RECURSIVE RunEffects(_, _, _, _, _)
RunEffects(ls, cs, new, ncs, i) ==
    IF i > Len(ncs) THEN ls
    ELSE IF HasListener(ncs[i]) /\ (~Kept(cs, new, i) \/ DepsChanged(cs[i], new[i]))
         THEN RunEffects(AddEventListener(ls, ListenerOf(i, ncs[i])), cs, new, ncs, i + 1)
         ELSE RunEffects(ls, cs, new, ncs, i + 1)

\* the listener array after the commit that renders the items new
CommitListeners(ls, cs, new) ==
    RunEffects(RunCleanups(ls, cs, new, 1), cs, new, RenderItems(cs, new), 1)

----------------------------------------------------------------------------
\* editor.onSelectionChange
\*
\* A handler is the sequence of the wrappers around the original handler,
\* innermost first: <<>> is the original handler, Append(h, w) is the closure
\* the effect of Toolbar w.tb installed when it had captured h and its items
\* prop was w.prop. w.live is FALSE for a closure of a Toolbar instance that
\* has unmounted since: its listener array and its setItems belong to that
\* dead instance.

Layer(t, p) == [tb |-> t, prop |-> p, live |-> TRUE]
DeadLayer(t) == [tb |-> t, prop |-> NoItems, live |-> FALSE]
MarkDead(h, t) == [i \in 1..Len(h) |-> IF h[i].tb = t THEN DeadLayer(t) ELSE h[i]]

NoListener == [key |-> 0, type |-> "none", onActive |-> Undefined, onDisabled |-> Undefined]
Ev(e, t, l, v, a) == [ev |-> e, tb |-> t, l |-> l, val |-> v, live |-> a]
ListenerEvents(t, ls) == [i \in 1..Len(ls) |-> Ev("listener", t, ls[i], <<>>, TRUE)]

\* editor.onSelectionChange = () => {...} in the effect
WrapHandler(h, w) == Append(h, w)
\* variant: the cleanup leaves the installed handler in place
RestoreHandlerKeep(cur, cap) == cur
\* editor.onSelectionChange = onSelectionChange in the cleanup of the effect
RestoreHandler(cur, cap) == cap

\* dispatch() of the Toolbar t on the listeners ls, in editor state s
DispatchToolbar(t, ls, st, s) ==
    [st EXCEPT !.comps[t] = Dispatch(ls, @, s),
               !.log = @ \o ListenerEvents(t, ls)]

\* variant: the items prop is stored without going through editor.onToolbar
SetItemsRaw(w, hook, st) ==
    LET v == OrEmpty(w.prop)
    IN  [st EXCEPT !.pending[w.tb] = <<v>>,
                   !.log = Append(@, Ev("setItems", w.tb, NoListener, v, TRUE))]
\* setItems(editor.onToolbar(itemsProp || []))
SetItems(w, hook, st) ==
    LET v == OnToolbarApply(hook, OrEmpty(w.prop))
    IN  [st EXCEPT !.pending[w.tb] = <<v>>,
                   !.log = Append(@, Ev("setItems", w.tb, NoListener, v, TRUE))]

\* the call h(): the wrapper calls the handler it captured, then dispatch(),
\* then setItems; lss are the listener arrays, hook is editor.onToolbar
RECURSIVE CallHandler(_, _, _, _, _)
CallHandler(h, lss, hook, st, s) ==
    IF h = <<>>
    THEN [st EXCEPT !.log = Append(@, Ev("orig", 0, NoListener, <<>>, TRUE))]
    ELSE LET w == h[Len(h)]
             entered == [st EXCEPT !.log = Append(@, Ev("wrapper", w.tb, NoListener, <<>>, w.live))]
             inner == CallHandler(SubSeq(h, 1, Len(h) - 1), lss, hook, entered, s)
         IN  IF w.live
             THEN SetItems(w, hook, DispatchToolbar(w.tb, lss[w.tb], inner, s))
             ELSE inner

\* the commit after the handler returned: every Toolbar whose items were set
\* renders them
CommitItems(st, field) ==
    [t \in AllToolbars |->
        IF st.pending[t] = <<>>
        THEN (CASE field = "items" -> items[t]
                [] field = "comps" -> st.comps[t]
                [] OTHER -> eventListeners[t])
        ELSE (CASE field = "items" -> st.pending[t][1]
                [] field = "comps" -> RenderItems(st.comps[t], st.pending[t][1])
                [] OTHER -> CommitListeners(eventListeners[t], st.comps[t], st.pending[t][1]))]

\* the editor, now in state s, calls editor.onSelectionChange()
Notify(s) ==
    LET st0 == [comps |-> comps, pending |-> [t \in AllToolbars |-> <<>>], log |-> <<>>]
        st == CallHandler(onSelectionChange, eventListeners, onToolbar[Rendered], st0, s)
    IN  /\ sel' = s
        /\ items' = CommitItems(st, "items")
        /\ comps' = CommitItems(st, "comps")
        /\ eventListeners' = CommitItems(st, "listeners")
        /\ log' = st.log
        /\ fired' = TRUE
        /\ UNCHANGED <<Toolbars, onToolbar, TOOLBAR_OPTIONS, onSelectionChange, mounted,
                       itemsProp, captured, ret, rerendered, unsubscribers>>

----------------------------------------------------------------------------
\* withToolbar and ToolbarEditor

IsToolbarEditor(e) == onToolbar[e] # Undefined
GetOptions(e) == IF TOOLBAR_OPTIONS[e] = <<>> THEN EmptyOptions ELSE TOOLBAR_OPTIONS[e][1]

\* variant: one options slot shared by all editors
OptionsSetAll(map, e, o) == [x \in DOMAIN map |-> <<o>>]
OptionsSet(map, e, o) == [map EXCEPT ![e] = <<o>>]

WithToolbar(e, o) ==
    /\ TOOLBAR_OPTIONS' = OptionsSet(TOOLBAR_OPTIONS, e, o)
    /\ onToolbar' = [onToolbar EXCEPT ![e] = "identity"]
    /\ ret' = e
    /\ lastOp' = Op("withToolbar", 0, 0, e, o) /\ fired' = FALSE /\ log' = <<>>
    /\ UNCHANGED <<Toolbars, sel, onSelectionChange, mounted, itemsProp, items,
                   eventListeners, captured, comps, rerendered, unsubscribers>>

\* a plugin applied after withToolbar replaces editor.onToolbar by a hook that
\* contributes an item
ExtendToolbar(e) ==
    /\ onToolbar[e] = "identity"
    /\ onToolbar' = [onToolbar EXCEPT ![e] = "plugin"]
    /\ lastOp' = Op("extend", 0, 0, e, EmptyOptions) /\ fired' = FALSE /\ log' = <<>>
    /\ UNCHANGED <<Toolbars, sel, TOOLBAR_OPTIONS, onSelectionChange, mounted, itemsProp,
                   items, eventListeners, captured, comps, ret, rerendered, unsubscribers>>

----------------------------------------------------------------------------
\* The Toolbar component

\* first render and commit: no item is rendered (items is []), the effect
\* captures and wraps editor.onSelectionChange and dispatches
MountToolbar(t, p) ==
    /\ t \in Toolbars /\ ~mounted[t]
    /\ IsToolbarEditor(Rendered)
    /\ Len(onSelectionChange) < MaxChain
    /\ mounted' = [mounted EXCEPT ![t] = TRUE]
    /\ itemsProp' = [itemsProp EXCEPT ![t] = p]
    /\ items' = [items EXCEPT ![t] = <<>>]
    /\ comps' = [comps EXCEPT ![t] = <<>>]
    /\ eventListeners' = [eventListeners EXCEPT ![t] = <<>>]
    /\ captured' = [captured EXCEPT ![t] = onSelectionChange]
    /\ onSelectionChange' = WrapHandler(onSelectionChange, Layer(t, p))
    /\ rerendered' = [rerendered EXCEPT ![t] = FALSE]
    /\ lastOp' = Op("mount", t, 0, Rendered, EmptyOptions) /\ fired' = FALSE /\ log' = <<>>
    /\ unsubscribers' = [unsubscribers EXCEPT ![t] = {}]
    /\ UNCHANGED <<Toolbars, sel, onToolbar, TOOLBAR_OPTIONS, ret>>

\* a render with a new items prop: the effect is cleaned up and runs again
RerenderToolbar(t, p) ==
    LET restored == RestoreHandler(onSelectionChange, captured[t])
        st0 == [comps |-> comps, pending |-> [u \in AllToolbars |-> <<>>], log |-> <<>>]
        st == DispatchToolbar(t, eventListeners[t], st0, sel)
    IN  /\ t \in Toolbars /\ mounted[t]
        /\ Len(restored) < MaxChain
        /\ itemsProp' = [itemsProp EXCEPT ![t] = p]
        /\ captured' = [captured EXCEPT ![t] = restored]
        /\ onSelectionChange' = WrapHandler(restored, Layer(t, p))
        /\ comps' = st.comps
        /\ log' = st.log
        /\ rerendered' = [rerendered EXCEPT ![t] = TRUE]
        /\ lastOp' = Op("rerender", t, 0, Rendered, EmptyOptions) /\ fired' = FALSE
        /\ UNCHANGED <<Toolbars, sel, onToolbar, TOOLBAR_OPTIONS, mounted, items,
                       eventListeners, ret, unsubscribers>>

\* one commit in which both Toolbars render with new items props: the cleanups
\* of both effects run, then both effects
RerenderAll(p1, p2) ==
    LET r1 == RestoreHandler(onSelectionChange, captured[1])
        r2 == RestoreHandler(r1, captured[2])
        h1 == WrapHandler(r2, Layer(1, p1))
        h2 == WrapHandler(h1, Layer(2, p2))
        st0 == [comps |-> comps, pending |-> [u \in AllToolbars |-> <<>>], log |-> <<>>]
        st1 == DispatchToolbar(1, eventListeners[1], st0, sel)
        st2 == DispatchToolbar(2, eventListeners[2], st1, sel)
    IN  /\ Toolbars = {1, 2} /\ mounted[1] /\ mounted[2]
        /\ Len(r2) + 2 <= MaxChain
        /\ itemsProp' = [itemsProp EXCEPT ![1] = p1, ![2] = p2]
        /\ captured' = [captured EXCEPT ![1] = r2, ![2] = h1]
        /\ onSelectionChange' = h2
        /\ comps' = st2.comps
        /\ log' = st2.log
        /\ rerendered' = [rerendered EXCEPT ![1] = TRUE, ![2] = TRUE]
        /\ lastOp' = Op("rerenderAll", 0, 0, Rendered, EmptyOptions) /\ fired' = FALSE
        /\ UNCHANGED <<Toolbars, sel, onToolbar, TOOLBAR_OPTIONS, mounted, items,
                       eventListeners, ret, unsubscribers>>

\* unmount: the items unmount and unsubscribe, the cleanup of the effect
\* restores the handler it captured
UnmountToolbar(t) ==
    LET restored == RestoreHandler(onSelectionChange, captured[t])
    IN  /\ t \in Toolbars /\ mounted[t]
        /\ mounted' = [mounted EXCEPT ![t] = FALSE]
        /\ eventListeners' = [eventListeners EXCEPT ![t] = RunCleanups(@, comps[t], <<>>, 1)]
        /\ comps' = [comps EXCEPT ![t] = <<>>]
        /\ items' = [items EXCEPT ![t] = <<>>]
        /\ itemsProp' = [itemsProp EXCEPT ![t] = NoItems]
        /\ onSelectionChange' = MarkDead(restored, t)
        /\ captured' = [u \in AllToolbars |-> IF u = t THEN <<>> ELSE MarkDead(captured[u], t)]
        /\ rerendered' = [rerendered EXCEPT ![t] = FALSE]
        /\ lastOp' = Op("unmount", t, 0, Rendered, EmptyOptions) /\ fired' = FALSE /\ log' = <<>>
        /\ UNCHANGED <<Toolbars, sel, onToolbar, TOOLBAR_OPTIONS, ret, unsubscribers>>

\* the editor's selection changes to s and it calls editor.onSelectionChange()
SelectionChange(s) ==
    /\ Notify(s)
    /\ lastOp' = Op("selectionChange", 0, 0, Rendered, EmptyOptions)

\* handleToogle of the item at key k: if (onToggle) onToggle(editor); the
\* command onToggle runs moves the editor to state v, which notifies
Toggle(t, k, v) ==
    /\ t \in Toolbars /\ mounted[t]
    /\ k \in 1..Len(comps[t]) /\ HasListener(comps[t][k])
    /\ lastOp' = Op("toggle", t, k, Rendered, EmptyOptions)
    /\ IF comps[t][k].onToggle # Undefined
       THEN Notify(v)
       ELSE /\ fired' = FALSE /\ log' = <<>>
            /\ UNCHANGED <<progVars, ret, rerendered>>

----------------------------------------------------------------------------
\* The context of a Toolbar, used by a consumer other than the built-in items

ForeignCallback(id) == [key |-> 0, type |-> "foreign", onActive |-> id, onDisabled |-> Undefined]
ForeignCallbacks == { ForeignCallback(id) : id \in {"f1", "f2", "f3"} }

\* useContext(ToolbarContext).addEventListener(cb); the consumer keeps the
\* function it returns
CtxAddEventListener(t, cb) ==
    /\ t \in Toolbars /\ mounted[t]
    /\ Len(eventListeners[t]) < MaxListeners
    /\ eventListeners' = [eventListeners EXCEPT ![t] = AddEventListener(@, cb)]
    /\ unsubscribers' = [unsubscribers EXCEPT ![t] = @ \cup {cb}]
    /\ lastOp' = Op("addEventListener", t, 0, Rendered, EmptyOptions) /\ fired' = FALSE
    /\ log' = <<Ev("addEventListener", t, cb, <<>>, TRUE)>>
    /\ UNCHANGED <<Toolbars, sel, onToolbar, TOOLBAR_OPTIONS, onSelectionChange, mounted,
                   itemsProp, items, captured, comps, ret, rerendered>>

\* the consumer calls a function addEventListener(cb) returned
CtxUnsubscribe(t, cb) ==
    /\ t \in Toolbars /\ mounted[t]
    /\ cb \in unsubscribers[t]
    /\ eventListeners' = [eventListeners EXCEPT ![t] = Unsubscribe(@, cb)]
    /\ lastOp' = Op("unsubscribe", t, 0, Rendered, EmptyOptions) /\ fired' = FALSE
    /\ log' = <<Ev("unsubscribe", t, cb, <<>>, TRUE)>>
    /\ UNCHANGED <<Toolbars, sel, onToolbar, TOOLBAR_OPTIONS, onSelectionChange, mounted,
                   itemsProp, items, captured, comps, ret, rerendered, unsubscribers>>

----------------------------------------------------------------------------
\* Specifications

InitWith(T) ==
    /\ Toolbars = T
    /\ sel = 0
    /\ onToolbar = [e \in Editors |-> Undefined]
    /\ TOOLBAR_OPTIONS = [e \in Editors |-> <<>>]
    /\ onSelectionChange = <<>>
    /\ mounted = [t \in AllToolbars |-> FALSE]
    /\ itemsProp = [t \in AllToolbars |-> NoItems]
    /\ items = [t \in AllToolbars |-> <<>>]
    /\ eventListeners = [t \in AllToolbars |-> <<>>]
    /\ captured = [t \in AllToolbars |-> <<>>]
    /\ comps = [t \in AllToolbars |-> <<>>]
    /\ ret = "none"
    /\ lastOp = Op("init", 0, 0, Rendered, EmptyOptions) /\ fired = FALSE /\ log = <<>>
    /\ rerendered = [t \in AllToolbars |-> FALSE]
    /\ unsubscribers = [t \in AllToolbars |-> {}]

\* one Toolbar on the page
Init == InitWith({1})

Next ==
    \/ \E e \in Editors, o \in OptionValues : WithToolbar(e, o)
    \/ \E e \in Editors : ExtendToolbar(e)
    \/ \E t \in AllToolbars, p \in PropValues : MountToolbar(t, p)
    \/ \E t \in AllToolbars, p \in PropValues : RerenderToolbar(t, p)
    \/ \E t \in AllToolbars : UnmountToolbar(t)
    \/ \E s \in Sel : SelectionChange(s)
    \/ \E t \in AllToolbars, v \in Sel : \E k \in 1..Len(comps[t]) : Toggle(t, k, v)

Spec == Init /\ [][Next]_vars

\* two Toolbars on the page, on the same editor
InitTwo == InitWith({1, 2})

\* the items props the two Toolbars are rendered with
TwoPropValues == { NoItems, SomeItems(<<BtnBold>>) }

NextTwo ==
    \/ WithToolbar(Rendered, EmptyOptions)
    \/ \E t \in AllToolbars, p \in TwoPropValues : MountToolbar(t, p)
    \/ \E t \in AllToolbars, p \in TwoPropValues : RerenderToolbar(t, p)
    \/ \E p1, p2 \in TwoPropValues : RerenderAll(p1, p2)
    \/ \E t \in AllToolbars : UnmountToolbar(t)
    \/ \E s \in Sel : SelectionChange(s)

SpecTwo == InitTwo /\ [][NextTwo]_vars

\* one Toolbar whose context foreign consumers subscribe to
NextCtx ==
    \/ \E e \in Editors, o \in OptionValues : WithToolbar(e, o)
    \/ \E t \in AllToolbars, p \in PropValues : MountToolbar(t, p)
    \/ \E t \in AllToolbars : UnmountToolbar(t)
    \/ \E t \in AllToolbars, cb \in ForeignCallbacks : CtxAddEventListener(t, cb)
    \/ \E t \in AllToolbars, cb \in ForeignCallbacks : CtxUnsubscribe(t, cb)

SpecCtx == Init /\ [][NextCtx]_vars

----------------------------------------------------------------------------
\* Properties

\* the calls of kind e in the log
CountEv(e) == Cardinality({i \in 1..Len(log) : log[i].ev = e})
IsListenerOf(t, x) == x.ev = "listener" /\ x.tb = t
\* the listeners of Toolbar t that were called, in call order
ListenersCalled(t) ==
    LET evs == SelectSeq(log, LAMBDA x : IsListenerOf(t, x))
    IN  [i \in 1..Len(evs) |-> evs[i].l]
\* the calls made, without the entries into the wrappers
CallsMade == SelectSeq(log, LAMBDA x : x.ev # "wrapper")
\* what editor.onToolbar returns for the items prop of Toolbar t
HookItems(t) == OnToolbarApply(onToolbar[Rendered], OrEmpty(itemsProp[t]))
KeysWithListener(t) == {k \in 1..Len(comps[t]) : HasListener(comps[t][k])}

\* C1: with one Toolbar, each notification calls the original handler once
\* and each registered listener once, whatever re-renders came before
C1_NotifyOnce ==
    [][\A t \in Toolbars :
         (fired' /\ mounted[t]) =>
            /\ CountEv("orig")' = 1
            /\ ListenersCalled(t)' = eventListeners[t]]_vars

C1_Witness ==
    /\ lastOp.op = "selectionChange" /\ mounted[1] /\ rerendered[1]
    /\ Len(ListenersCalled(1)) >= 2

\* C2: once all Toolbars have unmounted, editor.onSelectionChange is the
\* original handler again
C2_OriginalRestored ==
    (\A t \in AllToolbars : ~mounted[t]) => onSelectionChange = <<>>

\* C3: the flags of every mounted item equal its callbacks applied to the
\* current editor state
C3_FlagsCurrent ==
    \A t \in AllToolbars : \A k \in KeysWithListener(t) :
        LET c == comps[t][k]
            d == IF c.onDisabled # Undefined THEN CallBool(c.onDisabled, sel) ELSE FALSE
        IN  /\ c.disabled = d
            /\ c.type = "button" =>
                  c.active = (IF c.onActive # Undefined THEN CallBool(c.onActive, sel) ELSE FALSE)
            /\ c.type = "dropdown" =>
                  c.value = (IF c.onActive # Undefined THEN CallString(c.onActive, sel) ELSE Undefined)

\* C4: a mounted Toolbar renders editor.onToolbar(items prop or [])
C4_RendersHookItems ==
    \A t \in AllToolbars : mounted[t] =>
        /\ items[t] = HookItems(t)
        /\ Len(comps[t]) = Len(HookItems(t))
        /\ \A k \in 1..Len(comps[t]) :
              /\ comps[t][k].type = HookItems(t)[k].type
              /\ MemoEqual(comps[t][k], HookItems(t)[k])

\* C5: a notification delivered through a listener without onActive or
\* onDisabled leaves its item inactive, without value, not disabled; an item
\* never notified has the defaults; a toggle without onToggle changes nothing
C5_DefaultsAfterNotify ==
    \A i \in 1..Len(log) :
        (log[i].ev = "listener" /\ log[i].l.key \in 1..Len(comps[log[i].tb])) =>
            LET l == log[i].l
                c == comps[log[i].tb][l.key]
            IN  (c.type = l.type /\ c.notified) =>
                    /\ l.onActive = Undefined => (c.active = FALSE /\ c.value = Undefined)
                    /\ l.onDisabled = Undefined => c.disabled = FALSE

C5_DefaultsBeforeNotify ==
    \A t \in AllToolbars : \A k \in 1..Len(comps[t]) :
        ~comps[t][k].notified =>
            (~comps[t][k].active /\ ~comps[t][k].disabled /\ comps[t][k].value = Undefined)

C6_WithToolbar ==
    /\ [](\A e \in Editors : ~IsToolbarEditor(e) => GetOptions(e) = EmptyOptions)
    /\ [][\A e \in Editors :
            /\ (lastOp'.op = "withToolbar" /\ lastOp'.editor = e) =>
                  /\ ret' = e
                  /\ IsToolbarEditor(e)'
                  /\ \A p \in PropValues :
                        OnToolbarApply(onToolbar'[e], OrEmpty(p)) = OrEmpty(p)
                  /\ GetOptions(e)' = lastOp'.options
            /\ ~(lastOp'.op = "withToolbar" /\ lastOp'.editor = e) =>
                  /\ GetOptions(e)' = GetOptions(e)
                  /\ IsToolbarEditor(e)' = IsToolbarEditor(e)]_vars

C6_Witness ==
    /\ lastOp.op = "withToolbar" /\ lastOp.editor = "e2" /\ ret = "e2"
    /\ IsToolbarEditor("e1") /\ GetOptions("e1") # GetOptions("e2")
    /\ GetOptions("e2") = EmptyOptions

\* C7: with one Toolbar mounted, a notification calls the original handler,
\* then the listeners in registration order, then stores
\* editor.onToolbar(items prop) as the items; an effect run dispatches the
\* listeners once and does not call the original handler
C7_HandlerOrder ==
    [][\A t \in Toolbars :
         /\ (fired' /\ mounted[t]) =>
               /\ CallsMade' = <<Ev("orig", 0, NoListener, <<>>, TRUE)>>
                                  \o ListenerEvents(t, eventListeners[t])
                                  \o <<Ev("setItems", t, NoListener, HookItems(t), TRUE)>>
               /\ items'[t] = HookItems(t)
         /\ (lastOp'.op \in {"mount", "rerender"} /\ lastOp'.tb = t) =>
               log' = ListenerEvents(t, eventListeners'[t])]_vars

C7_Witness ==
    /\ lastOp.op = "selectionChange" /\ mounted[1]
    /\ onToolbar[Rendered] = "plugin"
    /\ Len(ListenersCalled(1)) >= 2
    /\ Len(items[1]) >= 3

\* C8: the listener array of a Toolbar holds one listener for each mounted
\* button or dropdown and nothing else, and a notification calls no other
C8_ListenersExact ==
    \A t \in AllToolbars :
        /\ Len(eventListeners[t]) = Cardinality(KeysWithListener(t))
        /\ \A k \in KeysWithListener(t) :
              \E i \in 1..Len(eventListeners[t]) :
                  eventListeners[t][i] = ListenerOf(k, comps[t][k])

C8_Listeners ==
    /\ []C8_ListenersExact
    /\ [][\A i \in 1..Len(log') :
            log'[i].ev = "listener" =>
               \E k \in KeysWithListener(log'[i].tb) :
                   log'[i].l = ListenerOf(k, comps[log'[i].tb][k])]_vars

\* a notification whose commit replaced one listener and removed another
C8_Witness ==
    /\ lastOp.op = "selectionChange" /\ mounted[1]
    /\ Len(eventListeners[1]) = 1
    /\ Len(ListenersCalled(1)) = 2
    /\ \A i \in 1..2 : ListenersCalled(1)[i] # eventListeners[1][1]

\* the list without the first registration of cb
RemoveFirst(list, cb) ==
    IF \E i \in 1..Len(list) : list[i] = cb
    THEN LET i == CHOOSE i \in 1..Len(list) :
                     list[i] = cb /\ \A j \in 1..(i - 1) : list[j] # cb
         IN  SubSeq(list, 1, i - 1) \o SubSeq(list, i + 1, Len(list))
    ELSE list

\* C9: an unsubscribe function removes the registration of its callback
\* only, and nothing when the callback is not registered
C9_UnsubscribeOnlyOwn ==
    [][lastOp'.op = "unsubscribe" =>
         eventListeners'[lastOp'.tb] = RemoveFirst(eventListeners[lastOp'.tb], log'[1].l)]_vars

\* C10: with two Toolbars, a notification calls the original handler once,
\* enters the wrapper of every mounted Toolbar once and calls its listeners
\* once, and enters no wrapper of an unmounted Toolbar
C10_BothNotified ==
    [][fired' =>
         /\ CountEv("orig")' = 1
         /\ \A t \in Toolbars : mounted[t] =>
               /\ Cardinality({i \in 1..Len(log') :
                      log'[i].ev = "wrapper" /\ log'[i].tb = t /\ log'[i].live}) = 1
               /\ ListenersCalled(t)' = eventListeners[t]
         /\ \A i \in 1..Len(log') : log'[i].ev = "wrapper" => log'[i].live]_vars

====
